---- MODULE Spec2Model ----
(***************************************************************************)
(* Model of the GRC Tool API (src/app.py): the in-memory Storage (policy   *)
(* mapping, risk sequence) and the seven request handlers.                 *)
(*                                                                         *)
(* A Python str is a sequence of chunks whose concatenation is the string: *)
(* <<"**", "Impact Level", ":", " ", "High">> is "**Impact Level: High".   *)
(* The chunk "Impact Level" is the only way the searched substring occurs. *)
(* A value that may be a non-str Python object (the content field of the   *)
(* completion, hence a stored policy text) is tagged: PyStr(s) or PyNone.  *)
(***************************************************************************)
EXTENDS Naturals, Sequences, FiniteSets, Bags, TLC

VARIABLES
    policies,   \* storage.policies: category (str) -> policy text (tagged)
    risks,      \* storage.risks: sequence of risk records
    request,    \* the request served last in one piece, with the upstream outcome
    response,   \* the HTTP response it got
    before,     \* the store as it was when that request arrived
    tasks,      \* the creation requests in flight as preemptible tasks (a bag)
    acked       \* the writes acknowledged with a success response so far

vars == <<policies, risks, request, response, before, tasks, acked>>

\* ---------------------------------------------------------------- bounds
MaxTextLen == 6
MaxRisks == 2
NTasks == 2

\* ---------------------------------------------------------------- strings
Needle == "Impact Level"
Unknown == <<"Unknown">>
Whitespace == {" ", "\n"}
Alphabet == {Needle, ":", "\n", " ", "High"}

PyStr(s) == [type |-> "str", val |-> s]
PyNone == [type |-> "NoneType", val |-> <<>>]

RECURSIVE LStrip(_)
LStrip(s) ==
    IF s # <<>> /\ Head(s) \in Whitespace THEN LStrip(Tail(s)) ELSE s

RECURSIVE RStrip(_)
RStrip(s) ==
    IF s # <<>> /\ s[Len(s)] \in Whitespace
    THEN RStrip(SubSeq(s, 1, Len(s) - 1))
    ELSE s

\* str.strip()
Strip(s) == RStrip(LStrip(s))

\* str.splitlines(): pieces between line breaks, no empty piece after a
\* trailing break, no piece at all for the empty string
RECURSIVE SplitLines(_)
SplitLines(s) ==
    IF s = <<>> THEN <<>>
    ELSE LET brk == {i \in 1..Len(s) : s[i] = "\n"}
         IN  IF brk = {} THEN <<s>>
             ELSE LET i == CHOOSE j \in brk : \A k \in brk : j <= k
                  IN  <<SubSeq(s, 1, i - 1)>> \o SplitLines(SubSeq(s, i + 1, Len(s)))

\* sub in line
Contains(line, sub) == \E i \in 1..Len(line) : line[i] = sub

\* line.split(":")[-1]
RECURSIVE SplitLast(_)
SplitLast(line) ==
    IF Contains(line, ":")
    THEN LET i == CHOOSE j \in 1..Len(line) : line[j] = ":"
         IN  SplitLast(SubSeq(line, i + 1, Len(line)))
    ELSE line

\* next((line for line in risk_output.splitlines() if "Impact Level" in line), "")
\* (faulty variant: the last matching line instead of the first)
ImpactLineLast(risk_output) ==
    LET lines == SplitLines(risk_output)
        hits == {i \in 1..Len(lines) : Contains(lines[i], Needle)}
    IN  IF hits = {} THEN <<>>
        ELSE lines[CHOOSE i \in hits : \A k \in hits : k <= i]

ImpactLine(risk_output) ==
    LET lines == SplitLines(risk_output)
        hits == {i \in 1..Len(lines) : Contains(lines[i], Needle)}
    IN  IF hits = {} THEN <<>>
        ELSE lines[CHOOSE i \in hits : \A k \in hits : i <= k]

\* impact_line.split(":")[-1].strip() if ":" in impact_line else "Unknown"
\* (faulty variant: no "Unknown" fallback)
ImpactNoDefault(risk_output) ==
    Strip(SplitLast(ImpactLine(risk_output)))

Impact(risk_output) ==
    LET impact_line == ImpactLine(risk_output)
    IN  IF Contains(impact_line, ":")
        THEN Strip(SplitLast(impact_line))
        ELSE Unknown

\* ---------------------------------------------------------------- storage
Healthcare == <<"Healthcare">>
DataPrivacy == <<"Data Privacy">>
ITSecurity == <<"IT Security">>

HealthcareText ==
    <<"Outlines the company's commitment to employee health, medical coverage, and safety protocols.">>
DataPrivacyText ==
    <<"Ensures protection of user data, compliance with GDPR and internal data handling practices.">>
ITSecurityText ==
    <<"Defines rules for protecting digital infrastructure, including access control and encryption.">>

\* Storage.__init__
\* (faulty variant: the third seed is missing)
StorageTwoSeeds ==
    [policies |->
        [c \in {Healthcare, DataPrivacy} |->
            IF c = Healthcare THEN PyStr(HealthcareText) ELSE PyStr(DataPrivacyText)],
     risks |-> <<>>]

Storage ==
    [policies |->
        [c \in {Healthcare, DataPrivacy, ITSecurity} |->
            IF c = Healthcare THEN PyStr(HealthcareText)
            ELSE IF c = DataPrivacy THEN PyStr(DataPrivacyText)
            ELSE PyStr(ITSecurityText)],
     risks |-> <<>>]

Store == [policies |-> policies, risks |-> risks]

\* storage.policies[final_category] = new_desc
\* (faulty variant: the mapping is rebuilt with the new entry only)
SetPolicyFresh(pol, final_category, new_desc) ==
    [c \in {final_category} |-> new_desc]

SetPolicy(pol, final_category, new_desc) ==
    [c \in DOMAIN pol \cup {final_category} |->
        IF c = final_category THEN new_desc ELSE pol[c]]

\* storage.risks.append(new_risk)
\* (faulty variant: the last record is replaced)
AppendRiskOverLast(rs, new_risk) ==
    IF rs = <<>> THEN <<new_risk>> ELSE [rs EXCEPT ![Len(rs)] = new_risk]

AppendRisk(rs, new_risk) == Append(rs, new_risk)

\* ---------------------------------------------------------------- upstream
\* openai.ChatCompletion.create(...) either raises, or returns a response
\* from which ['choices'][0]['message']['content'] cannot be read, or returns
\* one whose content is a str or a non-str value (null)
Raises == [kind |-> "raises"]
Malformed == [kind |-> "malformed"]
Content(v) == [kind |-> "content", content |-> v]

\* response['choices'][0]['message']['content'] evaluates without raising
Readable(up) == up.kind = "content"


\* ---------------------------------------------------------------- handlers
\* What a handler returns, as a function of its inputs and the upstream
\* outcome; status 200 carries the body, 400/500 the HTTPException detail.

\* create_policy: validation, completion call, response shaping.  The notes
\* parameter and the prompt only feed the completion call, whose outcome is
\* an input here, so they do not appear.
\* (faulty variants: the untrimmed category as key; validation without trimming)
PolicyResultRawKey(category, topic, up) ==
    IF Strip(category) = <<>> \/ Strip(topic) = <<>>
    THEN [status |-> 400, detail |-> "Category and topic are required"]
    ELSE IF ~Readable(up)
    THEN [status |-> 500, detail |-> "Error generating policy"]
    ELSE [status |-> 200, policy |-> up.content, category |-> category]

PolicyResultNoTrim(category, topic, up) ==
    IF category = <<>> \/ topic = <<>>
    THEN [status |-> 400, detail |-> "Category and topic are required"]
    ELSE IF ~Readable(up)
    THEN [status |-> 500, detail |-> "Error generating policy"]
    ELSE [status |-> 200, policy |-> up.content, category |-> Strip(category)]

PolicyResult(category, topic, up) ==
    LET final_category == Strip(category)
    IN  IF final_category = <<>> \/ Strip(topic) = <<>>
        THEN [status |-> 400, detail |-> "Category and topic are required"]
        ELSE IF ~Readable(up)
        THEN [status |-> 500, detail |-> "Error generating policy"]
        ELSE [status |-> 200, policy |-> up.content, category |-> final_category]

\* create_risk: completion call, impact extraction, record construction
RiskResult(name, domain, likelihood, description, up) ==
    IF ~Readable(up) \/ up.content.type # "str"
    THEN [status |-> 500, detail |-> "Error analyzing risk"]
    ELSE LET risk_output == up.content.val
         IN  [status |-> 200,
              risk |-> [risk |-> name,
                        domain |-> domain,
                        likelihood |-> likelihood,
                        impact |-> Impact(risk_output),
                        description |-> description,
                        mitigation |-> risk_output]]

\* get_risk_mitigation
MitigationResult(risk_name, up) ==
    IF ~Readable(up)
    THEN [status |-> 500, detail |-> "Error generating mitigation"]
    ELSE [status |-> 200, risk |-> risk_name, mitigation |-> up.content]

\* chat_with_grc_bot
ChatResult(query, up) ==
    IF ~Readable(up)
    THEN [status |-> 500, detail |-> "Error processing chat request"]
    ELSE [status |-> 200, query |-> query, response |-> up.content]

\* get_policies.  The handler returns storage.policies as it is (returned);
\* the route declares response_model=Dict[str, str], so the HTTP answer is
\* 200 with that mapping when every value is a str and 500 when one is not.
PoliciesResult(pol) ==
    IF \A c \in DOMAIN pol : pol[c].type = "str"
    THEN [status |-> 200, body |-> pol, returned |-> pol]
    ELSE [status |-> 500, detail |-> "Internal Server Error", returned |-> pol]

\* ---------------------------------------------------------------- bookkeeping
Put(b, k) == b (+) SetToBag({k})

Take(b, k) == b (-) SetToBag({k})

NoAcks == [policies |-> {}, written |-> << >>, risks |-> <<>>, raced |-> {}]

\* Bookkeeping for what the clients were told: the risk records returned
\* with success (risks), the categories for which a create_policy returned
\* success (policies), the text most recently written to each category
\* (written), and the kinds of creation requests that overlapped in flight
\* (raced).
NoteWritten(a, r) ==
    [a EXCEPT !.written = SetPolicy(a.written, r.category, r.policy)]

AckPolicy(a, r) ==
    [a EXCEPT !.policies = @ \cup {r.category}]

AckRisk(a, r) ==
    [a EXCEPT !.risks = Append(a.risks, r.risk)]

\* ---------------------------------------------------------------- requests served in one piece
\* No handler awaits: the completion call is synchronous, so on the event
\* loop a handler runs from its first line to its return without yielding.

root ==
    /\ request' = [op |-> "root"]
    /\ response' = [status |-> 200, message |-> "GRC Tool API is running"]
    /\ before' = Store
    /\ UNCHANGED <<policies, risks, tasks, acked>>

get_policies ==
    /\ request' = [op |-> "get_policies"]
    /\ response' = PoliciesResult(policies)
    /\ before' = Store
    /\ UNCHANGED <<policies, risks, tasks, acked>>

get_risks ==
    /\ request' = [op |-> "get_risks"]
    /\ response' = [status |-> 200, body |-> risks]
    /\ before' = Store
    /\ UNCHANGED <<policies, risks, tasks, acked>>

create_policy(category, topic, up) ==
    LET r == PolicyResult(category, topic, up)
    IN  /\ request' = [op |-> "create_policy", category |-> category,
                       topic |-> topic, upstream |-> up]
        /\ response' = r
        /\ before' = Store
        /\ policies' = IF r.status = 200
                       THEN SetPolicy(policies, r.category, r.policy)
                       ELSE policies
        /\ acked' = IF r.status = 200
                    THEN AckPolicy(NoteWritten(acked, r), r)
                    ELSE acked
        /\ UNCHANGED <<risks, tasks>>

create_risk(name, domain, likelihood, description, up) ==
    LET r == RiskResult(name, domain, likelihood, description, up)
    IN  /\ request' = [op |-> "create_risk", name |-> name, domain |-> domain,
                       likelihood |-> likelihood, description |-> description,
                       upstream |-> up]
        /\ response' = r
        /\ before' = Store
        /\ risks' = IF r.status = 200 THEN AppendRisk(risks, r.risk) ELSE risks
        /\ acked' = IF r.status = 200 THEN AckRisk(acked, r) ELSE acked
        /\ UNCHANGED <<policies, tasks>>

\* (faulty variant: the mitigation request is recorded as a risk)
get_risk_mitigation_logged(risk_name, impact, likelihood, up) ==
    /\ request' = [op |-> "get_risk_mitigation", risk_name |-> risk_name,
                   impact |-> impact, likelihood |-> likelihood, upstream |-> up]
    /\ response' = MitigationResult(risk_name, up)
    /\ before' = Store
    /\ risks' = IF Readable(up)
                THEN Append(risks, [risk |-> risk_name, domain |-> <<>>,
                                    likelihood |-> likelihood, impact |-> impact,
                                    description |-> <<>>, mitigation |-> <<>>])
                ELSE risks
    /\ UNCHANGED <<policies, tasks, acked>>

get_risk_mitigation(risk_name, impact, likelihood, up) ==
    /\ request' = [op |-> "get_risk_mitigation", risk_name |-> risk_name,
                   impact |-> impact, likelihood |-> likelihood, upstream |-> up]
    /\ response' = MitigationResult(risk_name, up)
    /\ before' = Store
    /\ UNCHANGED <<policies, risks, tasks, acked>>

chat_with_grc_bot(query, up) ==
    /\ request' = [op |-> "chat_with_grc_bot", query |-> query, upstream |-> up]
    /\ response' = ChatResult(query, up)
    /\ before' = Store
    /\ UNCHANGED <<policies, risks, tasks, acked>>

\* ---------------------------------------------------------------- inputs
HR == <<"HR">>
Legal == <<"Legal">>
CategoryInputs == {<<>>, <<" ">>, Healthcare, <<" ", "HR", "\n">>}
TopicInputs == {<<>>, <<"\n", " ">>, <<" ", "Leave", " ">>}
Names == {<<"Outage">>, <<"Breach">>}
DomainIn == <<"IT">>
LikelihoodIn == <<"Medium">>
ImpactIn == <<"High">>
DescriptionIn == <<"Primary", " ", "site", " ", "down">>
QueryIn == <<"What", " ", "is", " ", "GRC?">>

Completions ==
    { <<"**", Needle, "**", ":", " ", "High", "\n", "Plan">>,
      <<"Mitigation", " ", "steps">> }

Upstreams ==
    {Raises, Malformed, Content(PyNone)} \cup {Content(PyStr(t)) : t \in Completions}

\* ImpactSpec covers create_risk over all texts; here one text is enough
RiskUpstreams ==
    {Raises, Malformed, Content(PyNone),
     Content(PyStr(<<"**", Needle, "**", ":", " ", "High", "\n", "Plan">>))}

\* every str of at most n chunks over the alphabet
Texts(n) == UNION {[1..k -> Alphabet] : k \in 0..n}

\* ---------------------------------------------------------------- specification
Init ==
    /\ policies = Storage.policies
    /\ risks = Storage.risks
    /\ request = [op |-> "startup"]
    /\ response = [status |-> 0]
    /\ before = Storage
    /\ tasks = EmptyBag
    /\ acked = NoAcks

PostPolicies == \E c \in CategoryInputs, t \in TopicInputs, up \in Upstreams :
    create_policy(c, t, up)

PostRisks ==
    /\ Len(risks) < MaxRisks
    /\ \E n \in Names, up \in RiskUpstreams :
        create_risk(n, DomainIn, LikelihoodIn, DescriptionIn, up)

PostMitigation == \E n \in Names, up \in Upstreams :
    get_risk_mitigation(n, ImpactIn, LikelihoodIn, up)

PostChat == \E up \in Upstreams : chat_with_grc_bot(QueryIn, up)

Next ==
    \/ root
    \/ get_policies
    \/ get_risks
    \/ PostPolicies
    \/ PostRisks
    \/ PostMitigation
    \/ PostChat

Spec == Init /\ [][Next]_vars

\* create_risk over every completion text of at most MaxTextLen chunks
ImpactNext ==
    /\ risks = <<>>
    /\ \E text \in Texts(MaxTextLen) :
        create_risk(<<"Outage">>, DomainIn, LikelihoodIn, DescriptionIn,
                    Content(PyStr(text)))

ImpactSpec == Init /\ [][ImpactNext]_vars


\* ---------------------------------------------------------------- requests served as preemptible tasks
\* The same two creation handlers on a host that may switch between request
\* tasks between any two statements of a handler (a threaded server).  A
\* creation request that reaches its store write is three steps: everything
\* up to the store write (Start), the store write (Write), the return of
\* the response (Return); any other task may run between them.  A request
\* that fails before its store write has no step that touches the store.
\* Each task remembers the mapping or sequence it is about to write as it
\* was when the task started (seen); the handlers never use it.  At most
\* NTasks requests are in flight.  request, response and before describe
\* requests served in one piece and are left alone here: a task carries its
\* own result, and what it was told on return goes to acked.

NoResponse == [status |-> 0]

IsPolicyTask(k) == k.pc \in {"store_policy", "return_policy"}

IsRiskTask(k) == k.pc \in {"store_risk", "return_risk"}

InFlight == BagToSet(tasks)

\* the store a write lands on: the live storage object, read at the moment
\* of the write
\* (faulty variant: a copy taken when the task started)
WriteTargetSeen(live, seen) == seen

WriteTarget(live, seen) == live

\* the kind of race a starting create_policy enters: another create_policy
\* is in flight on a different category
OverlapsPolicy(r) ==
    {"create_policy" : k \in {j \in InFlight :
        IsPolicyTask(j) /\ j.result.category # r.category}}

\* the kind of race a starting create_risk enters: another create_risk is
\* in flight
OverlapsRisk ==
    {"create_risk" : k \in {j \in InFlight : IsRiskTask(j)}}

\* create_policy up to new_desc = response[...]
StartPolicy(category, topic, up) ==
    LET r == PolicyResult(category, topic, up)
    IN  /\ BagCardinality(tasks) < NTasks
        /\ IF r.status = 200
           THEN /\ tasks' = Put(tasks, [pc |-> "store_policy", result |-> r,
                                        seen |-> policies])
                /\ acked' = [acked EXCEPT !.raced = @ \cup OverlapsPolicy(r)]
           ELSE UNCHANGED <<tasks, acked>>
        /\ UNCHANGED <<policies, risks, request, response, before>>

\* storage.policies[final_category] = new_desc
WritePolicy(k) ==
    /\ k \in InFlight
    /\ k.pc = "store_policy"
    /\ policies' = SetPolicy(WriteTarget(policies, k.seen),
                             k.result.category, k.result.policy)
    /\ acked' = NoteWritten(acked, k.result)
    /\ tasks' = Put(Take(tasks, k), [k EXCEPT !.pc = "return_policy"])
    /\ UNCHANGED <<risks, request, response, before>>

\* return {"message": ..., "policy": new_desc, "category": final_category}
ReturnPolicy(k) ==
    /\ k \in InFlight
    /\ k.pc = "return_policy"
    /\ acked' = AckPolicy(acked, k.result)
    /\ tasks' = Take(tasks, k)
    /\ UNCHANGED <<policies, risks, request, response, before>>

\* create_risk up to the construction of new_risk
StartRisk(name, domain, likelihood, description, up) ==
    LET r == RiskResult(name, domain, likelihood, description, up)
    IN  /\ BagCardinality(tasks) < NTasks
        /\ IF r.status = 200
           THEN /\ tasks' = Put(tasks, [pc |-> "store_risk", result |-> r,
                                        seen |-> risks])
                /\ acked' = [acked EXCEPT !.raced = @ \cup OverlapsRisk]
           ELSE UNCHANGED <<tasks, acked>>
        /\ UNCHANGED <<policies, risks, request, response, before>>

\* storage.risks.append(new_risk)
WriteRisk(k) ==
    /\ k \in InFlight
    /\ k.pc = "store_risk"
    /\ risks' = AppendRisk(WriteTarget(risks, k.seen), k.result.risk)
    /\ tasks' = Put(Take(tasks, k), [k EXCEPT !.pc = "return_risk"])
    /\ UNCHANGED <<policies, acked, request, response, before>>

\* return {"message": ..., "risk": new_risk}
ReturnRisk(k) ==
    /\ k \in InFlight
    /\ k.pc = "return_risk"
    /\ acked' = AckRisk(acked, k.result)
    /\ tasks' = Take(tasks, k)
    /\ UNCHANGED <<policies, risks, request, response, before>>

ConcCategories == {HR, Legal}
ConcTopic == <<"Leave">>
ConcNames == {<<"Outage">>}
ConcPolicyTexts == {<<"Policy", " ", "A">>, <<"Policy", " ", "B">>}
ConcRiskText == <<"**", Needle, "**", ":", " ", "High">>
ConcPolicyUpstreams == {Raises} \cup {Content(PyStr(x)) : x \in ConcPolicyTexts}
ConcRiskUpstreams == {Raises, Content(PyStr(ConcRiskText))}

\* the create_risk tasks that have not appended yet
PendingRisks ==
    BagCardinality([k \in {j \in InFlight : j.pc = "store_risk"} |-> tasks[k]])

ConcStartPolicy ==
    \E c \in ConcCategories, up \in ConcPolicyUpstreams :
        StartPolicy(c, ConcTopic, up)

ConcStartRisk ==
    /\ Len(risks) + PendingRisks < MaxRisks
    /\ \E n \in ConcNames, up \in ConcRiskUpstreams :
        StartRisk(n, DomainIn, LikelihoodIn, DescriptionIn, up)

ConcWritePolicy == \E k \in InFlight : WritePolicy(k)

ConcReturnPolicy == \E k \in InFlight : ReturnPolicy(k)

ConcWriteRisk == \E k \in InFlight : WriteRisk(k)

ConcReturnRisk == \E k \in InFlight : ReturnRisk(k)

ConcNext ==
    \/ ConcStartPolicy
    \/ ConcStartRisk
    \/ ConcWritePolicy
    \/ ConcReturnPolicy
    \/ ConcWriteRisk
    \/ ConcReturnRisk

ConcSpec == Init /\ [][ConcNext]_vars

Count(seq, x) == Cardinality({i \in 1..Len(seq) : seq[i] = x})

\* no request is in flight
Quiet == tasks = EmptyBag

\* the store lacks a write that was acknowledged with a success response:
\* a category for which a create_policy returned is missing from the
\* mapping or holds another text than the one most recently written to
\* that category, or a returned risk record is in the sequence fewer times
\* than it was returned
LostUpdate ==
    \/ \E c \in acked.policies :
          c \notin DOMAIN policies \/ policies[c] # acked.written[c]
    \/ \E i \in 1..Len(acked.risks) :
          Count(risks, acked.risks[i]) < Count(acked.risks, acked.risks[i])

\* the store as constructed, nothing requested yet
Constructed ==
    /\ policies = Storage.policies
    /\ risks = Storage.risks
    /\ Quiet
    /\ acked = NoAcks

\* a step of a create_policy call whose completion call returns a text, on a
\* category no other create_policy call was made on
PolicyRaceStep ==
    \/ \E c \in ConcCategories, x \in ConcPolicyTexts :
          /\ c \notin DOMAIN acked.written
          /\ \A k \in InFlight : k.result.category # c
          /\ StartPolicy(c, ConcTopic, Content(PyStr(x)))
    \/ \E k \in InFlight : WritePolicy(k) \/ ReturnPolicy(k)

\* a step of a create_risk call whose completion call returns a text
RiskRaceStep ==
    \/ \E n \in ConcNames :
          StartRisk(n, DomainIn, LikelihoodIn, DescriptionIn,
                    Content(PyStr(ConcRiskText)))
    \/ \E k \in InFlight : WriteRisk(k) \/ ReturnRisk(k)

\* every request has returned and an acknowledged write is lacking
Lost == LostUpdate /\ Quiet

\* some interleaving of at most n steps of create_policy calls on different
\* categories ends in Lost (two calls of three steps each take six)
PoliciesLostIn1 == Lost \/ ENABLED (PolicyRaceStep /\ Lost')
PoliciesLostIn2 == Lost \/ ENABLED (PolicyRaceStep /\ PoliciesLostIn1')
PoliciesLostIn3 == Lost \/ ENABLED (PolicyRaceStep /\ PoliciesLostIn2')
PoliciesLostIn4 == Lost \/ ENABLED (PolicyRaceStep /\ PoliciesLostIn3')
PoliciesLostIn5 == Lost \/ ENABLED (PolicyRaceStep /\ PoliciesLostIn4')
PoliciesLostIn6 == Lost \/ ENABLED (PolicyRaceStep /\ PoliciesLostIn5')

\* the same for create_risk calls
RisksLostIn1 == Lost \/ ENABLED (RiskRaceStep /\ Lost')
RisksLostIn2 == Lost \/ ENABLED (RiskRaceStep /\ RisksLostIn1')
RisksLostIn3 == Lost \/ ENABLED (RiskRaceStep /\ RisksLostIn2')
RisksLostIn4 == Lost \/ ENABLED (RiskRaceStep /\ RisksLostIn3')
RisksLostIn5 == Lost \/ ENABLED (RiskRaceStep /\ RisksLostIn4')
RisksLostIn6 == Lost \/ ENABLED (RiskRaceStep /\ RisksLostIn5')

\* ---------------------------------------------------------------- properties
TextOf(up) == up.content.val
IsText(up) == up.kind = "content" /\ up.content.type = "str"

\* the lines of a text that contain "Impact Level", by position
Matching(text) ==
    {j \in 1..Len(SplitLines(text)) : Contains(SplitLines(text)[j], Needle)}

FirstMatching(text) ==
    SplitLines(text)[CHOOSE j \in Matching(text) : \A k \in Matching(text) : j <= k]

\* v is the text after the last colon of line, trimmed
IsAfterLastColon(v, line) ==
    \E i \in 1..Len(line) :
        /\ line[i] = ":"
        /\ \A k \in (i + 1)..Len(line) : line[k] # ":"
        /\ v = Strip(SubSeq(line, i + 1, Len(line)))

IsPrefix(s, t) == Len(s) <= Len(t) /\ SubSeq(t, 1, Len(s)) = s

ValidPolicyRequest ==
    /\ request.op = "create_policy"
    /\ Strip(request.category) # <<>>
    /\ Strip(request.topic) # <<>>

\* C1: create_policy(C, T) with C and T non-empty after trimming and an
\* upstream text X leaves trim(C) mapped to X and every other category as it
\* was; an existing key is overwritten and the number of categories does
\* not grow.
C1_CreatePolicyUpserts ==
    (ValidPolicyRequest /\ IsText(request.upstream)) =>
        LET C == Strip(request.category)
            X == request.upstream.content
        IN  /\ DOMAIN policies = DOMAIN before.policies \cup {C}
            /\ policies[C] = X
            /\ \A k \in DOMAIN before.policies \ {C} :
                  policies[k] = before.policies[k]
            /\ C \in DOMAIN before.policies =>
                  Cardinality(DOMAIN policies) = Cardinality(DOMAIN before.policies)

\* an untrimmed category whose trimmed form was already a key, with another text
C1_Witness ==
    /\ ValidPolicyRequest /\ IsText(request.upstream)
    /\ request.category # Strip(request.category)
    /\ Strip(request.category) \in DOMAIN before.policies
    /\ before.policies[Strip(request.category)] # request.upstream.content
    /\ response.status = 200

\* C2: create_policy with a category or topic that is empty after trimming
\* fails with 400 and leaves policies and risks unchanged.
C2_EmptyInputIs400 ==
    (request.op = "create_policy"
        /\ (Strip(request.category) = <<>> \/ Strip(request.topic) = <<>>)) =>
        /\ response.status = 400
        /\ policies = before.policies
        /\ risks = before.risks

\* a whitespace-only category, an upstream that would have succeeded, a
\* store that already differs from the seed
C2_Witness ==
    /\ request.op = "create_policy"
    /\ request.category = <<" ">>
    /\ Strip(request.topic) # <<>>
    /\ IsText(request.upstream)
    /\ response.status = 400
    /\ risks # <<>>
    /\ HR \in DOMAIN policies

\* C3: when the completion call raises or returns malformed data (no
\* readable content, or a content that is not text), create_policy,
\* create_risk, get_risk_mitigation and chat_with_grc_bot answer 500 and the
\* store is as it was before the request.
C3_UpstreamFailureIs500 ==
    (/\ request.op \in {"create_policy", "create_risk",
                        "get_risk_mitigation", "chat_with_grc_bot"}
     /\ request.op = "create_policy" => ValidPolicyRequest
     /\ ~IsText(request.upstream)) =>
        /\ response.status = 500
        /\ policies = before.policies
        /\ risks = before.risks

\* C4: a create_risk whose upstream call succeeds appends exactly one
\* record: the length grows by one, earlier records keep content and order,
\* the last record is the one returned, the policies are unchanged.
C4_CreateRiskAppendsOne ==
    (request.op = "create_risk" /\ IsText(request.upstream)) =>
        /\ response.status = 200
        /\ Len(risks) = Len(before.risks) + 1
        /\ \A i \in 1..Len(before.risks) : risks[i] = before.risks[i]
        /\ risks[Len(risks)] = response.risk
        /\ response.risk.risk = request.name
        /\ policies = before.policies

\* the new risk has the name of a risk already in the sequence
C4_Witness ==
    /\ request.op = "create_risk" /\ IsText(request.upstream)
    /\ \E i \in 1..Len(before.risks) : before.risks[i].risk = request.name
    /\ Len(risks) = Len(before.risks) + 1

\* C5 as stated: whenever some line of the upstream text contains "Impact
\* Level", the stored impact is the text after the last colon of the first
\* such line, trimmed.
C5_ImpactIsAfterLastColon ==
    (/\ request.op = "create_risk" /\ IsText(request.upstream)
     /\ Matching(TextOf(request.upstream)) # {}) =>
        /\ response.status = 200
        /\ risks[Len(risks)].impact = response.risk.impact
        /\ IsAfterLastColon(response.risk.impact,
                            FirstMatching(TextOf(request.upstream)))

\* C5 amended: whenever some line of the upstream text contains "Impact
\* Level", the stored impact is the text after the last colon of the first
\* such line, trimmed, if that line has a colon, and "Unknown" if it has none.
C5_ImpactOfFirstMatch ==
    (/\ request.op = "create_risk" /\ IsText(request.upstream)
     /\ Matching(TextOf(request.upstream)) # {}) =>
        LET line == FirstMatching(TextOf(request.upstream))
        IN  /\ response.status = 200
            /\ risks[Len(risks)].impact = response.risk.impact
            /\ IF Contains(line, ":")
               THEN IsAfterLastColon(response.risk.impact, line)
               ELSE response.risk.impact = Unknown

\* two matching lines, the first one yields "High", the later one has a
\* colon and would yield something else
C5_Witness ==
    /\ request.op = "create_risk" /\ IsText(request.upstream)
    /\ response.status = 200
    /\ response.risk.impact = <<"High">>
    /\ LET text == TextOf(request.upstream)
       IN  \E j, k \in Matching(text) :
              /\ j < k
              /\ Contains(SplitLines(text)[k], ":")
              /\ ~IsAfterLastColon(<<"High">>, SplitLines(text)[k])

\* C6: when no line of the upstream text contains "Impact Level", the
\* stored impact is "Unknown", the request succeeds and the record is
\* appended.
C6_NoMatchIsUnknown ==
    (/\ request.op = "create_risk" /\ IsText(request.upstream)
     /\ \A j \in 1..Len(SplitLines(TextOf(request.upstream))) :
           ~Contains(SplitLines(TextOf(request.upstream))[j], Needle)) =>
        /\ response.status = 200
        /\ response.risk.impact = Unknown
        /\ risks = Append(before.risks, response.risk)
        /\ risks[Len(risks)].impact = Unknown

\* a text with a colon and a value but no "Impact Level"
C6_Witness ==
    /\ request.op = "create_risk" /\ IsText(request.upstream)
    /\ ~Contains(TextOf(request.upstream), Needle)
    /\ Contains(TextOf(request.upstream), ":")
    /\ Contains(TextOf(request.upstream), "High")
    /\ response.status = 200
    /\ Len(risks) = 1

\* C7: before any request is served the policy mapping holds exactly
\* "Healthcare", "Data Privacy" and "IT Security" with their seed text and
\* the risk sequence is empty.
C7_InitialStore ==
    request.op = "startup" =>
        /\ DOMAIN policies = {<<"Healthcare">>, <<"Data Privacy">>, <<"IT Security">>}
        /\ policies[<<"Healthcare">>] = PyStr(
            <<"Outlines the company's commitment to employee health, medical coverage, and safety protocols.">>)
        /\ policies[<<"Data Privacy">>] = PyStr(
            <<"Ensures protection of user data, compliance with GDPR and internal data handling practices.">>)
        /\ policies[<<"IT Security">>] = PyStr(
            <<"Defines rules for protecting digital infrastructure, including access control and encryption.">>)
        /\ risks = <<>>

\* the state right after construction
C7_Witness ==
    /\ request.op = "startup"
    /\ response = NoResponse
    /\ Cardinality(DOMAIN policies) = 3

\* C8: get_risk_mitigation, chat_with_grc_bot, get_policies, get_risks and
\* root leave policies and risks as they were, whatever the input and the
\* upstream outcome.
C8_ReadersLeaveStore ==
    request.op \in {"get_risk_mitigation", "chat_with_grc_bot",
                    "get_policies", "get_risks", "root"} =>
        /\ policies = before.policies
        /\ risks = before.risks

\* a mitigation call that succeeded on a store holding risks and an added policy
C8_Witness ==
    /\ request.op = "get_risk_mitigation"
    /\ response.status = 200
    /\ risks # <<>>
    /\ HR \in DOMAIN policies

\* C9 as stated: from the store as constructed there is an interleaving of
\* two creation requests (two create_risk calls, or two create_policy calls
\* on different categories) that both return success and after which the
\* store lacks the write of one of them.
C9_LostUpdateRace ==
    Constructed => (PoliciesLostIn6 \/ RisksLostIn6)

\* C9 amended: there is no such interleaving.  Whatever creation requests
\* are in flight and however their steps interleave, the store holds every
\* write acknowledged with a success response: each category for which a
\* create_policy returned is in the mapping with the text most recently
\* written to that category, and each returned risk record is in the
\* sequence as many times as it was returned.
C9_NoLostUpdate == ~LostUpdate

\* two create_risk calls overlapped, two create_policy calls on different
\* categories overlapped, every request has returned success, and the
\* store holds both categories and both records
C9_Witness ==
    /\ acked.raced = {"create_risk", "create_policy"}
    /\ Quiet
    /\ Len(acked.risks) >= 2
    /\ {HR, Legal} \subseteq acked.policies
    /\ Len(risks) >= 2
    /\ {HR, Legal} \subseteq DOMAIN policies

\* C10: every step keeps every policy category (so the three seeded ones
\* are always present) and extends the risk sequence: the sequence before
\* the step is a prefix of the sequence after it.
C10_StoreOnlyGrows ==
    /\ []({Healthcare, DataPrivacy, ITSecurity} \subseteq DOMAIN policies)
    /\ [][/\ DOMAIN policies \subseteq DOMAIN policies'
          /\ IsPrefix(risks, risks')]_vars

\* a store that grew by a category and two risks and had a seed overwritten
C10_Witness ==
    /\ HR \in DOMAIN policies
    /\ policies[Healthcare] # PyStr(HealthcareText)
    /\ Len(risks) >= 2
    /\ risks[1] # risks[2]
====
